---- MODULE Spec2Model ----
(***************************************************************************)
(* Model of the scoreboard exporter (src/src/stats/mod.rs): the record     *)
(* decoder Stats::parse_blob, the derived query get_player_list, the       *)
(* tabular exporter write_csv and the persistence exporter write_to_sql,   *)
(* driven by the command dispatch of src/src/bin/nbttool.rs.               *)
(*                                                                         *)
(* Strings of the input (names, keys, cells) are sequences of character    *)
(* codes, so that ordering, stripping and decimal formatting are computed. *)
(* Field names and error labels, which are string literals of the source,  *)
(* are TLA+ strings.                                                       *)
(***************************************************************************)
EXTENDS Integers, Sequences, FiniteSets, TLC

(***************************************************************************)
(* Bounds of the model.                                                    *)
(***************************************************************************)
\* longest Objectives list of an input tree
MaxObjectives == 2
\* longest PlayerScores list of an input tree
MaxPlayerScores == 3
\* longest PlayerScores list of an input tree of a run that writes to the store
MaxSqlScores == 2
\* number of times the tool is run on the same input file and store
MaxRuns == 2

(***************************************************************************)
(* Strings: sequences of character codes, compared as Rust compares str.   *)
(***************************************************************************)
\* Ord for str: lexicographic on the code units, a proper prefix is smaller
StrLess(a, b) ==
    \E i \in 1..(Len(b)) :
        /\ i - 1 <= Len(a)
        /\ \A j \in 1..(i - 1) : a[j] = b[j]
        /\ (i > Len(a) \/ a[i] < b[i])

RECURSIVE Digits(_)
\* decimal digits of a natural number, most significant first
Digits(n) == IF n < 10 THEN <<48 + n>> ELSE Digits(n \div 10) \o <<48 + (n % 10)>>

\* i64::to_string: a minus sign and the digits of the magnitude
I64ToString(n) == IF n < 0 THEN <<45>> \o Digits(0 - n) ELSE Digits(n)

\* the w-bit pattern is zero-extended
AsI64_ZeroExtend(n, w) == IF w >= 32 THEN n ELSE n % (2 ^ w)

\* `x as i64` from a signed integer of w bits: sign extension of the w-bit
\* pattern.  From 32 bits on the pattern exceeds the integers TLC computes with
\* and the widening is taken as the value itself.
AsI64(n, w) ==
    IF w >= 32 THEN n
    ELSE LET u == n % (2 ^ w)
         IN  IF u >= 2 ^ (w - 1) THEN u - 2 ^ w ELSE u

(***************************************************************************)
(* Tag tree nodes (nbt::Value).  Every node is a record of the same shape: *)
(* kind, n (integer payload), s (string payload), f (children of a         *)
(* compound, by field name; Absent where the compound has no such child).  *)
(***************************************************************************)
FieldNames ==
    {"Name", "CriteriaName", "display_auto_update", "DisplayName", "RenderType",
     "Objective", "Locked", "Score"}

Absent == [kind |-> "Absent", n |-> 0, s |-> <<>>]
ByteV(n) == [kind |-> "Byte", n |-> n, s |-> <<>>]
ShortV(n) == [kind |-> "Short", n |-> n, s |-> <<>>]
IntV(n) == [kind |-> "Int", n |-> n, s |-> <<>>]
LongV(n) == [kind |-> "Long", n |-> n, s |-> <<>>]
StringV(s) == [kind |-> "String", n |-> 0, s |-> s]

NoFields == [x \in FieldNames |-> Absent]
\* a list element: a compound with children f, or a scalar v
Compound(f) == [kind |-> "Compound", v |-> Absent, f |-> f]
Scalar(v) == [kind |-> v.kind, v |-> v, f |-> NoFields]

\* Map::get on a compound's children: None is Absent
Get(f, name) == f[name]

\* Display of a scalar node, as used for the map keys
ValueToString(v) ==
    IF v.kind = "String" THEN v.s ELSE I64ToString(v.n)

(***************************************************************************)
(* Errors (enum Error) and the anyhow errors parse_blob builds itself.     *)
(***************************************************************************)
NoError ==
    [type |-> "None", field |-> "", expected_type |-> "", real_data |-> Absent,
     context |-> "", at |-> <<>>]
MissingNbtField(field) ==
    [NoError EXCEPT !.type = "MissingNbtField", !.field = field]
WrongTypeNbtField(field, expected_type, real_data) ==
    [NoError EXCEPT !.type = "WrongTypeNbtField", !.field = field,
                    !.expected_type = expected_type, !.real_data = real_data]
\* an error that is only a message: with_context on an Option, and bail!
Message(msg) == [NoError EXCEPT !.type = "Message", !.context = msg]
\* with_context on a Result: the error keeps its type and gains the context
WithContext(e, msg, key) == [e EXCEPT !.context = msg, !.at = key]

(***************************************************************************)
(* Domain records and their field-by-field construction from a compound.   *)
(* A construction yields [ok, val, err]: Ok(val) or Err(err).              *)
(***************************************************************************)
NoObjective ==
    [criteria_name |-> <<>>, display_auto_update |-> 0, display_name |-> <<>>,
     render_type |-> <<>>]
NoPlayerScore == [locked |-> 0, player_name |-> <<>>, score |-> 0]

\* a string of fewer than two characters is kept as it is
StripEnds_KeepShort(s) == IF Len(s) < 2 THEN s ELSE SubSeq(s, 2, Len(s) - 1)

\* chars.next(); chars.next_back(); chars.as_str(): drop one character at each end
StripEnds(s) == IF Len(s) < 2 THEN <<>> ELSE SubSeq(s, 2, Len(s) - 1)

\* the missing-field error is built with the label of the type-mismatch error
ReadField_MissingLabel(f, name, kinds, label, expected_type) ==
    LET x == Get(f, name)
    IN  IF x.kind = "Absent" THEN [ok |-> FALSE, err |-> MissingNbtField(label), x |-> x]
        ELSE IF x.kind \in kinds THEN [ok |-> TRUE, err |-> NoError, x |-> x]
        ELSE [ok |-> FALSE, err |-> WrongTypeNbtField(label, expected_type, x), x |-> x]

\* one field of a record: missing, or of the expected kind, or of another kind
\* label is the field name the type-mismatch error is built with
ReadField(f, name, kinds, label, expected_type) ==
    LET x == Get(f, name)
    IN  IF x.kind = "Absent" THEN [ok |-> FALSE, err |-> MissingNbtField(name), x |-> x]
        ELSE IF x.kind \in kinds THEN [ok |-> TRUE, err |-> NoError, x |-> x]
        ELSE [ok |-> FALSE, err |-> WrongTypeNbtField(label, expected_type, x), x |-> x]

\* the label of the type-mismatch error of render_type
RenderTypeLabel == "RenderTyoe"

\* impl TryFrom<&Value> for Objective
ObjectiveTryFrom(value) ==
    IF value.kind # "Compound"
    THEN [ok |-> FALSE, val |-> NoObjective,
          err |-> WrongTypeNbtField("objective", "Compund", value.v)]
    ELSE
    LET criteria == ReadField(value.f, "CriteriaName", {"String"}, "CriteriaName", "String")
        update == ReadField(value.f, "display_auto_update", {"Byte"},
                            "display_auto_update", "Byte")
        display == ReadField(value.f, "DisplayName", {"String"}, "DisplayName", "String")
        render == ReadField(value.f, "RenderType", {"String"}, RenderTypeLabel, "String")
    IN  IF ~criteria.ok THEN [ok |-> FALSE, val |-> NoObjective, err |-> criteria.err]
        ELSE IF ~update.ok THEN [ok |-> FALSE, val |-> NoObjective, err |-> update.err]
        ELSE IF ~display.ok THEN [ok |-> FALSE, val |-> NoObjective, err |-> display.err]
        ELSE IF ~render.ok THEN [ok |-> FALSE, val |-> NoObjective, err |-> render.err]
        ELSE [ok |-> TRUE, err |-> NoError,
              val |-> [criteria_name |-> criteria.x.s,
                       display_auto_update |-> update.x.n,
                       display_name |-> StripEnds(display.x.s),
                       render_type |-> render.x.s]]

\* the width in bits of each integer node kind
Width(kind) ==
    CASE kind = "Byte" -> 8 [] kind = "Short" -> 16 [] kind = "Int" -> 32
      [] OTHER -> 64

\* a string node passes as a score
ScoreKinds_String == {"Long", "Int", "Short", "Byte", "String"}

\* the kinds the Score field accepts
ScoreKinds == {"Long", "Int", "Short", "Byte"}

\* impl TryFrom<&Value> for PlayerScore
PlayerScoreTryFrom(value) ==
    IF value.kind # "Compound"
    THEN [ok |-> FALSE, val |-> NoPlayerScore,
          err |-> WrongTypeNbtField("PlayerScores", "Compound", value.v)]
    ELSE
    LET locked == ReadField(value.f, "Locked", {"Byte"}, "Locked", "Byte")
        name == ReadField(value.f, "Name", {"String"}, "Name", "String")
        score == ReadField(value.f, "Score", ScoreKinds, "Score", "Long, Int, Short, Byte")
    IN  IF ~locked.ok THEN [ok |-> FALSE, val |-> NoPlayerScore, err |-> locked.err]
        ELSE IF ~name.ok THEN [ok |-> FALSE, val |-> NoPlayerScore, err |-> name.err]
        ELSE IF ~score.ok THEN [ok |-> FALSE, val |-> NoPlayerScore, err |-> score.err]
        ELSE [ok |-> TRUE, err |-> NoError,
              val |-> [locked |-> locked.x.n,
                       player_name |-> name.x.s,
                       score |-> IF score.x.kind = "Long" THEN score.x.n
                                 ELSE AsI64(score.x.n, Width(score.x.kind))]]

(***************************************************************************)
(* Maps (nbt::Map) are functions; the empty map is the empty function.     *)
(***************************************************************************)
EmptyMap == <<>>
MapInsert(m, key, v) == [x \in (DOMAIN m) \cup {key} |-> IF x = key THEN v ELSE m[x]]
ContainsKey(m, key) == key \in DOMAIN m

\* struct Stats
NoStats == [objectives |-> EmptyMap, player_scores |-> EmptyMap]
\* what a call of parse_blob ends with: nothing yet, Ok(stats), Err(err), or a panic
NoResult == [kind |-> "None", stats |-> NoStats, err |-> NoError]
Ok(objs, scores) ==
    [kind |-> "Ok", stats |-> [objectives |-> objs, player_scores |-> scores],
     err |-> NoError]
Err(e) == [kind |-> "Err", stats |-> NoStats, err |-> e]
Panic == [kind |-> "Panic", stats |-> NoStats, err |-> NoError]

(***************************************************************************)
(* Input trees.  A tree is the content of the blob: the kind of its `data` *)
(* child and the two children of `data`, each with its kind and, for a     *)
(* list, its elements.                                                     *)
(***************************************************************************)
ListNode(elems) == [kind |-> "List", elems |-> elems]
OtherNode(kind) == [kind |-> kind, elems |-> <<>>]
Blob(data, objs, scores) == [data |-> data, Objectives |-> objs, PlayerScores |-> scores]

SeqsUpTo(S, n) == UNION {[1..m -> S] : m \in 0..n}

\* objective identifiers "d", "k", and "x", which no objective of the inputs has
IdD == <<100>>
IdK == <<107>>
IdX == <<120>>
\* player names "a", "ab", "b"
NameA == <<97>>
NameAB == <<97, 98>>
NameB == <<98>>

ObjectiveElem(name, criteria, update, display, render) ==
    Compound([NoFields EXCEPT !["Name"] = name, !["CriteriaName"] = criteria,
                              !["display_auto_update"] = update,
                              !["DisplayName"] = display, !["RenderType"] = render])
ScoreElem(objective, locked, name, score) ==
    Compound([NoFields EXCEPT !["Objective"] = objective, !["Locked"] = locked,
                              !["Name"] = name, !["Score"] = score])

\* a well-formed objective element with identifier id, quoted display name
GoodObjective(id, display) ==
    ObjectiveElem(StringV(id), StringV(<<99>>), ByteV(0),
                  StringV(<<34>> \o display \o <<34>>), StringV(<<105>>))
GoodScore(id, name, score) == ScoreElem(StringV(id), ByteV(0), StringV(name), score)

\* well-formed list elements: "d" twice with different display names, "k" whose
\* display name sorts before those of "d", and an element that is no compound
NarrowObjectives ==
    {GoodObjective(IdD, <<90>>), GoodObjective(IdD, <<77, 109>>),
     GoodObjective(IdK, <<65>>), Scalar(ByteV(1))}
NarrowScores ==
    {GoodScore(IdD, NameA, ByteV(5)), GoodScore(IdD, NameA, LongV(-3)),
     GoodScore(IdD, NameB, IntV(70000)), GoodScore(IdX, NameAB, ShortV(-2)),
     Scalar(StringV(NameA))}

\* elements with every combination of missing, valid and ill-typed fields
WideObjectives ==
    {ObjectiveElem(StringV(IdD), c, u, dn, r) :
        c \in {Absent, StringV(<<99>>), ByteV(1)},
        u \in {Absent, ByteV(1), StringV(<<49>>)},
        dn \in {Absent, StringV(<<34, 90, 34>>), IntV(2)},
        r \in {Absent, StringV(<<105>>), LongV(3)}}
    \cup {ObjectiveElem(n, c, ByteV(0), StringV(dn), r) :
            n \in {Absent, ByteV(7)}, c \in {Absent, StringV(<<99>>)},
            dn \in {<<>>, <<81>>, <<81, 82>>, <<34, 75, 76, 34>>},
            r \in {StringV(<<105>>), ShortV(4)}}
WideScores ==
    {ScoreElem(StringV(IdD), l, n, s) :
        l \in {Absent, ByteV(1), ShortV(1)},
        n \in {Absent, StringV(NameA), ByteV(97)},
        s \in {Absent, ByteV(-7), ByteV(-128), ShortV(-7), IntV(-7), LongV(-7), ByteV(0),
               StringV(<<53>>)}}
    \cup {ScoreElem(o, l, StringV(NameB), s) :
            o \in {Absent, ByteV(7)}, l \in {Absent, ByteV(0)},
            s \in {Absent, ShortV(127), StringV(<<48>>)}}

\* lists of elements that pass, followed by one element of the wide sets
ObjectiveListsWide ==
    {Append(p, w) :
        p \in SeqsUpTo({GoodObjective(IdD, <<90>>), Scalar(ByteV(1))}, MaxObjectives - 1),
        w \in WideObjectives}
ScoreListsWide ==
    {Append(p, w) :
        p \in SeqsUpTo({GoodScore(IdD, NameA, ByteV(5)), Scalar(StringV(NameA))},
                       MaxPlayerScores - 1),
        w \in WideScores}
ObjectiveListsFew ==
    {<<>>, <<GoodObjective(IdD, <<90>>)>>,
     <<GoodObjective(IdK, <<65>>), GoodObjective(IdD, <<90>>)>>}
ScoreListsFew ==
    {<<>>, <<GoodScore(IdD, NameA, ByteV(5))>>,
     <<GoodScore(IdX, NameB, LongV(9)), GoodScore(IdD, NameA, ByteV(5))>>}

\* trees whose `data`, Objectives or PlayerScores child is missing or of another kind
ShapeBlobs ==
    {Blob("Absent", OtherNode("Absent"), OtherNode("Absent")),
     Blob("Int", OtherNode("Absent"), OtherNode("Absent"))}
    \cup {Blob("Compound", OtherNode(kind), ListNode(s)) :
            kind \in {"Absent", "Byte", "Compound"}, s \in ScoreListsFew}
    \cup {Blob("Compound", ListNode(o), OtherNode(kind)) :
            kind \in {"Absent", "String", "Compound"}, o \in ObjectiveListsFew}
DecodeBlobs ==
    {Blob("Compound", ListNode(o), ListNode(s)) :
        o \in ObjectiveListsWide, s \in ScoreListsFew}
    \cup {Blob("Compound", ListNode(o), ListNode(s)) :
            o \in ObjectiveListsFew, s \in ScoreListsWide}
PivotBlobs ==
    {Blob("Compound", ListNode(o), ListNode(s)) :
        o \in SeqsUpTo(NarrowObjectives, MaxObjectives),
        s \in SeqsUpTo(NarrowScores, MaxPlayerScores)}
\* the inputs of the runs that write to the store
SqlScores ==
    {GoodScore(IdD, NameA, ByteV(5)), GoodScore(IdD, NameA, LongV(-3)),
     GoodScore(IdX, NameB, LongV(9))}
SqlBlobs ==
    {Blob("Compound", ListNode(o), ListNode(s)) :
        o \in ObjectiveListsFew, s \in SeqsUpTo(SqlScores, MaxSqlScores)}
    \cup {Blob("Compound", ListNode(<<>>), OtherNode("Absent"))}

(***************************************************************************)
(* Derived query and tabular export, as functions of the aggregate and of  *)
(* the order in which the maps happen to iterate.                          *)
(***************************************************************************)
\* the orders in which a map with key set S can iterate
Orders(S) ==
    {o \in [1..Cardinality(S) -> S] : \A a, b \in 1..Cardinality(S) : a # b => o[a] # o[b]}

\* place x in the sorted sequence s, after the elements that are not greater
InsertSorted(s, x) ==
    LET n == Cardinality({j \in 1..Len(s) : ~StrLess(x, s[j])})
    IN  SubSeq(s, 1, n) \o <<x>> \o SubSeq(s, n + 1, Len(s))

RECURSIVE SortStrings(_)
\* sort_unstable on a Vec<String>
SortStrings(s) ==
    IF s = <<>> THEN <<>> ELSE InsertSorted(SortStrings(Tail(s)), Head(s))

\* no neighbour is removed
Dedup_None(s) == s

RECURSIVE Dedup(_)
\* Vec::dedup: of each run of equal neighbours one element stays
Dedup(s) ==
    IF Len(s) < 2 THEN s
    ELSE IF s[1] = s[2] THEN Dedup(Tail(s))
    ELSE <<s[1]>> \o Dedup(Tail(s))

RECURSIVE FlatNames(_, _)
\* the player names of the score lists, the lists taken in the order `order`
FlatNames(scores, order) ==
    IF order = <<>> THEN <<>>
    ELSE [j \in 1..Len(scores[Head(order)]) |-> scores[Head(order)][j].player_name]
         \o FlatNames(scores, Tail(order))

\* the names are not sorted before the neighbours are compared
get_player_list_Unsorted(stats, order) ==
    Dedup(FlatNames(stats.player_scores, order))

\* Stats::get_player_list, the map iterating in the order `order`
get_player_list(stats, order) ==
    Dedup(SortStrings(FlatNames(stats.player_scores, order)))

\* the keys stay in iteration order
Titles_Unsorted(order) == order

\* titles of write_csv: the objective keys, collected in iteration order, sorted
Titles(order) == SortStrings(order)

\* "Players"
PlayersHeader == <<80, 108, 97, 121, 101, 114, 115>>

\* the last entry naming the player is taken
FindPlayer_Last(list, player) ==
    LET hits == {j \in 1..Len(list) : list[j].player_name = player}
    IN  IF hits = {} THEN 0 ELSE CHOOSE j \in hits : \A h \in hits : j >= h

\* the first entry of the list whose player name is `player`: its index, or 0
FindPlayer(list, player) ==
    LET hits == {j \in 1..Len(list) : list[j].player_name = player}
    IN  IF hits = {} THEN 0 ELSE CHOOSE j \in hits : \A h \in hits : j <= h

\* a player without an entry under the title is looked up under every key
Cell_AnyKey(stats, title, player) ==
    LET under(key) == FindPlayer(stats.player_scores[key], player)
        own == IF ContainsKey(stats.player_scores, title) THEN under(title) ELSE 0
        others == {key \in DOMAIN stats.player_scores : under(key) # 0}
    IN  IF own # 0 THEN I64ToString(stats.player_scores[title][own].score)
        ELSE IF others = {} THEN <<48>>
        ELSE LET key == CHOOSE k \in others : TRUE
             IN  I64ToString(stats.player_scores[key][under(key)].score)

\* one cell of a player's row
Cell(stats, title, player) ==
    IF ~ContainsKey(stats.player_scores, title) THEN <<48>>
    ELSE LET list == stats.player_scores[title]
             j == FindPlayer(list, player)
         IN  IF j = 0 THEN <<48>> ELSE I64ToString(list[j].score)

\* the records write_csv hands to the writer: the header, then a row per player
CsvRecords(stats, objOrder, scoreOrder) ==
    LET titles == Titles(objOrder)
        top_row == <<PlayersHeader>>
                   \o [c \in 1..Len(titles) |-> stats.objectives[titles[c]].display_name]
        players == get_player_list(stats, scoreOrder)
    IN  <<top_row>>
        \o [r \in 1..Len(players) |->
               <<players[r]>>
               \o [c \in 1..Len(titles) |-> Cell(stats, titles[c], players[r])]]

(***************************************************************************)
(* Persistence: the statements of write_to_sql and what they do to the     *)
(* store.  The table `players` is keyed by player_name and `objectives` by *)
(* objective_name (INSERT IGNORE leaves an existing row alone); `stats`    *)
(* has no key, its rows are counted.                                       *)
(***************************************************************************)
NoStatement ==
    [table |-> "", player_name |-> <<>>, objective_name |-> <<>>,
     display_name |-> <<>>, criteria_name |-> <<>>, score |-> 0, time |-> 0]
InsertPlayer(p) == [NoStatement EXCEPT !.table = "players", !.player_name = p]
InsertObjective(name, obj) ==
    [NoStatement EXCEPT !.table = "objectives", !.objective_name = name,
                        !.display_name = obj.display_name,
                        !.criteria_name = obj.criteria_name]
InsertStat(player_score, obj_name, timestamp) ==
    [NoStatement EXCEPT !.table = "stats", !.score = player_score.score,
                        !.player_name = player_score.player_name,
                        !.objective_name = obj_name, !.time = timestamp]

RECURSIVE StatInserts(_, _, _)
\* only the first entry of a list is inserted
StatInserts_FirstOnly(stats, order, timestamp) ==
    IF order = <<>> THEN <<>>
    ELSE <<InsertStat(stats.player_scores[Head(order)][1], Head(order), timestamp)>>
         \o StatInserts(stats, Tail(order), timestamp)

\* the inserts of the third loop, the score lists taken in the order `order`
StatInserts(stats, order, timestamp) ==
    IF order = <<>> THEN <<>>
    ELSE [j \in 1..Len(stats.player_scores[Head(order)]) |->
            InsertStat(stats.player_scores[Head(order)][j], Head(order), timestamp)]
         \o StatInserts(stats, Tail(order), timestamp)

\* the inserts of the three loops
PlayerPhase(stats, scoreOrder) ==
    LET players == get_player_list(stats, scoreOrder)
    IN  [n \in 1..Len(players) |-> InsertPlayer(players[n])]
ObjectivePhase(stats, objOrder) ==
    [n \in 1..Len(objOrder) |-> InsertObjective(objOrder[n], stats.objectives[objOrder[n]])]

\* the objective loop runs before the player loop
Statements_ObjectivesFirst(stats, objOrder, scoreOrder, timestamp) ==
    ObjectivePhase(stats, objOrder)
    \o PlayerPhase(stats, scoreOrder)
    \o StatInserts(stats, scoreOrder, timestamp)

\* the statements of one call of write_to_sql, in the order they are awaited
Statements(stats, objOrder, scoreOrder, timestamp) ==
    PlayerPhase(stats, scoreOrder)
    \o ObjectivePhase(stats, objOrder)
    \o StatInserts(stats, scoreOrder, timestamp)

EmptyStore == [players |-> {}, objectives |-> EmptyMap, stats |-> EmptyMap]

\* the score insert leaves alone a row of the same player and objective
Execute_IgnoreStats(db, q) ==
    CASE q.table = "players" -> [db EXCEPT !.players = @ \cup {q.player_name}]
      [] q.table = "objectives" ->
            IF ContainsKey(db.objectives, q.objective_name) THEN db
            ELSE [db EXCEPT !.objectives =
                    MapInsert(@, q.objective_name,
                              [display_name |-> q.display_name,
                               criteria_name |-> q.criteria_name])]
      [] OTHER ->
            IF \E r \in DOMAIN db.stats : /\ r.player_name = q.player_name
                                          /\ r.objective_name = q.objective_name
            THEN db
            ELSE [db EXCEPT !.stats = MapInsert(@, q, 1)]

\* the store after a statement that succeeded
Execute(db, q) ==
    CASE q.table = "players" -> [db EXCEPT !.players = @ \cup {q.player_name}]
      [] q.table = "objectives" ->
            IF ContainsKey(db.objectives, q.objective_name) THEN db
            ELSE [db EXCEPT !.objectives =
                    MapInsert(@, q.objective_name,
                              [display_name |-> q.display_name,
                               criteria_name |-> q.criteria_name])]
      [] OTHER ->
            [db EXCEPT !.stats =
                MapInsert(@, q, IF ContainsKey(@, q) THEN @[q] + 1 ELSE 1)]

(***************************************************************************)
(* State.                                                                  *)
(***************************************************************************)
VARIABLES
    cmd,            \* the flag of the run: "CSV" or "SQL"
    blob,           \* the input tree
    run,            \* the number of the current run of the tool on this input
    pc,             \* the position of the run
    i,              \* parse_blob: the index of the next list element
    objectives,     \* parse_blob: the local map `objectives`
    player_scores,  \* parse_blob: the local map `player_scores`
    result,         \* what parse_blob ended with
    outputs,        \* the result of write_csv of each run, oldest first
    queries,        \* write_to_sql: the statements of the call, in order
    issued,         \* write_to_sql: the statements issued so far, with their outcome
    sql_result,     \* what write_to_sql ended with
    store,          \* the rows of the external store
    calls           \* the outcome of each call of write_to_sql and the store it left

inVars == <<cmd, blob, run>>
parseVars == <<i, objectives, player_scores>>
sqlVars == <<queries, issued, sql_result, store, calls>>
vars ==
    <<cmd, blob, run, pc, i, objectives, player_scores, result, outputs,
      queries, issued, sql_result, store, calls>>

Init ==
    /\ \/ cmd = "CSV" /\ blob \in ShapeBlobs \cup DecodeBlobs \cup PivotBlobs
       \/ cmd = "SQL" /\ blob \in SqlBlobs
    /\ run = 1
    /\ pc = "parse_blob"
    /\ i = 1
    /\ objectives = EmptyMap
    /\ player_scores = EmptyMap
    /\ result = NoResult
    /\ outputs = <<>>
    /\ queries = <<>>
    /\ issued = <<>>
    /\ sql_result = "None"
    /\ store = EmptyStore
    /\ calls = <<>>

\* parse_blob ends with r: the caller goes on with the aggregate, or gives up
Return(r) ==
    /\ result' = r
    /\ pc' = IF r.kind = "Ok" THEN "export" ELSE "exit"

(***************************************************************************)
(* Stats::parse_blob                                                       *)
(***************************************************************************)
\* `data`, the Objectives child and its kind
ParseBlobBegin ==
    /\ pc = "parse_blob"
    /\ IF blob.data = "Absent"
       THEN Return(Err(Message("Missing field \"data\" in the nbt object")))
       ELSE IF blob.data # "Compound"
       THEN Return(Err(Message("Nbt data object is not type \"COMPOUND\"")))
       ELSE IF blob.Objectives.kind = "Absent"
       THEN Return(Err(Message("Missing field \"Objectives\" in the nbt object")))
       ELSE IF blob.Objectives.kind # "List"
       THEN Return(Err(Message("Nbt tag \"Raw objectives\" is not a list")))
       ELSE pc' = "objectives" /\ UNCHANGED result
    /\ UNCHANGED <<inVars, parseVars, outputs, sqlVars>>

\* one element of the Objectives list
ParseObjective ==
    /\ pc = "objectives"
    /\ i <= Len(blob.Objectives.elems)
    /\ LET objective == blob.Objectives.elems[i]
           parsed == ObjectiveTryFrom(objective)
       IN  IF objective.kind # "Compound"
           THEN /\ i' = i + 1
                /\ UNCHANGED <<pc, objectives, result>>
           ELSE IF Get(objective.f, "Name").kind = "Absent"
           THEN /\ Return(Panic)
                /\ UNCHANGED <<i, objectives>>
           ELSE LET key == ValueToString(Get(objective.f, "Name"))
                IN  IF parsed.ok
                    THEN /\ objectives' = MapInsert(objectives, key, parsed.val)
                         /\ i' = i + 1
                         /\ UNCHANGED <<pc, result>>
                    ELSE /\ Return(Err(WithContext(parsed.err,
                                                   "Error parsing Objectives at", key)))
                         /\ UNCHANGED <<i, objectives>>
    /\ UNCHANGED <<inVars, player_scores, outputs, sqlVars>>

\* after the Objectives list: the PlayerScores child and its kind
ParsePlayerScoresBegin ==
    /\ pc = "objectives"
    /\ i > Len(blob.Objectives.elems)
    /\ IF blob.PlayerScores.kind = "Absent"
       THEN /\ Return(Err(Message("Missing field \"PlayerScores\" in the nbt object")))
            /\ UNCHANGED i
       ELSE IF blob.PlayerScores.kind # "List"
       THEN /\ Return(Panic)
            /\ UNCHANGED i
       ELSE /\ pc' = "player_scores"
            /\ i' = 1
            /\ UNCHANGED result
    /\ UNCHANGED <<inVars, objectives, player_scores, outputs, sqlVars>>

\* an element that is not a compound is handed to try_into like the others
ParsePlayerScore_Strict ==
    /\ pc = "player_scores"
    /\ i <= Len(blob.PlayerScores.elems)
    /\ LET player_score == blob.PlayerScores.elems[i]
           parsed == PlayerScoreTryFrom(player_score)
       IN  IF player_score.kind # "Compound"
           THEN /\ Return(Err(parsed.err))
                /\ UNCHANGED <<i, player_scores>>
           ELSE IF Get(player_score.f, "Objective").kind = "Absent"
           THEN /\ Return(Panic)
                /\ UNCHANGED <<i, player_scores>>
           ELSE LET key == ValueToString(Get(player_score.f, "Objective"))
                IN  IF parsed.ok
                    THEN /\ player_scores' =
                               IF ContainsKey(player_scores, key)
                               THEN [player_scores EXCEPT
                                        ![key] = Append(@, parsed.val)]
                               ELSE MapInsert(player_scores, key, <<parsed.val>>)
                         /\ i' = i + 1
                         /\ UNCHANGED <<pc, result>>
                    ELSE /\ Return(Err(parsed.err))
                         /\ UNCHANGED <<i, player_scores>>
    /\ UNCHANGED <<inVars, objectives, outputs, sqlVars>>

\* one element of the PlayerScores list
ParsePlayerScore ==
    /\ pc = "player_scores"
    /\ i <= Len(blob.PlayerScores.elems)
    /\ LET player_score == blob.PlayerScores.elems[i]
           parsed == PlayerScoreTryFrom(player_score)
       IN  IF player_score.kind # "Compound"
           THEN /\ i' = i + 1
                /\ UNCHANGED <<pc, player_scores, result>>
           ELSE IF Get(player_score.f, "Objective").kind = "Absent"
           THEN /\ Return(Panic)
                /\ UNCHANGED <<i, player_scores>>
           ELSE LET key == ValueToString(Get(player_score.f, "Objective"))
                IN  IF parsed.ok
                    THEN /\ player_scores' =
                               IF ContainsKey(player_scores, key)
                               THEN [player_scores EXCEPT
                                        ![key] = Append(@, parsed.val)]
                               ELSE MapInsert(player_scores, key, <<parsed.val>>)
                         /\ i' = i + 1
                         /\ UNCHANGED <<pc, result>>
                    ELSE /\ Return(Err(parsed.err))
                         /\ UNCHANGED <<i, player_scores>>
    /\ UNCHANGED <<inVars, objectives, outputs, sqlVars>>

\* the aggregate is returned from inside the loop, with the elements read so far
ParseBlobReturn_Early ==
    /\ pc = "player_scores"
    /\ Return(Ok(objectives, player_scores))
    /\ UNCHANGED <<inVars, parseVars, outputs, sqlVars>>

\* after the PlayerScores list: the aggregate is built and returned
ParseBlobReturn ==
    /\ pc = "player_scores"
    /\ i > Len(blob.PlayerScores.elems)
    /\ Return(Ok(objectives, player_scores))
    /\ UNCHANGED <<inVars, parseVars, outputs, sqlVars>>

(***************************************************************************)
(* Stats::write_csv                                                        *)
(***************************************************************************)
\* the whole export: the records reach the sink, or the sink fails
WriteCsv ==
    /\ pc = "export"
    /\ cmd = "CSV"
    /\ \E objOrder \in Orders(DOMAIN result.stats.objectives),
          scoreOrder \in Orders(DOMAIN result.stats.player_scores),
          sinkOk \in BOOLEAN :
          outputs' = Append(outputs,
                            IF sinkOk
                            THEN [ok |-> TRUE,
                                  records |-> CsvRecords(result.stats, objOrder, scoreOrder)]
                            ELSE [ok |-> FALSE, records |-> <<>>])
    /\ pc' = "exit"
    /\ UNCHANGED <<inVars, parseVars, result, sqlVars>>

(***************************************************************************)
(* Stats::write_to_sql                                                     *)
(***************************************************************************)
\* the call begins: the player list is built, the maps iterate in some order,
\* and the call's timestamp is the time of the run
WriteToSqlBegin ==
    /\ pc = "export"
    /\ cmd = "SQL"
    /\ \E objOrder \in Orders(DOMAIN result.stats.objectives),
          scoreOrder \in Orders(DOMAIN result.stats.player_scores) :
          queries' = Statements(result.stats, objOrder, scoreOrder, run)
    /\ issued' = <<>>
    /\ sql_result' = "None"
    /\ pc' = "write_to_sql"
    /\ UNCHANGED <<inVars, parseVars, result, outputs, store, calls>>

\* a failed statement is ignored and the loops go on
ExecuteQuery_Continue ==
    /\ pc = "write_to_sql"
    /\ Len(issued) < Len(queries)
    /\ LET q == queries[Len(issued) + 1]
       IN  \E ok \in BOOLEAN :
              /\ issued' = Append(issued, [query |-> q, ok |-> ok])
              /\ store' = IF ok THEN Execute(store, q) ELSE store
              /\ UNCHANGED <<pc, sql_result, calls>>
    /\ UNCHANGED <<inVars, parseVars, result, outputs, queries>>

\* the next statement is issued and awaited: it succeeds, or the call ends
\* with the transport error
ExecuteQuery ==
    /\ pc = "write_to_sql"
    /\ Len(issued) < Len(queries)
    /\ LET q == queries[Len(issued) + 1]
       IN  \E ok \in BOOLEAN :
              /\ issued' = Append(issued, [query |-> q, ok |-> ok])
              /\ IF ok
                 THEN /\ store' = Execute(store, q)
                      /\ UNCHANGED <<pc, sql_result, calls>>
                 ELSE /\ sql_result' = "Err"
                      /\ pc' = "exit"
                      /\ calls' = Append(calls, [result |-> "Err", store |-> store])
                      /\ UNCHANGED store
    /\ UNCHANGED <<inVars, parseVars, result, outputs, queries>>

\* every statement succeeded
WriteToSqlReturn ==
    /\ pc = "write_to_sql"
    /\ Len(issued) = Len(queries)
    /\ sql_result' = "Ok"
    /\ pc' = "exit"
    /\ calls' = Append(calls, [result |-> "Ok", store |-> store])
    /\ UNCHANGED <<inVars, parseVars, result, outputs, queries, issued, store>>

\* the tool is run again on the same input and the same store
Rerun ==
    /\ pc = "exit"
    /\ run < MaxRuns
    /\ run' = run + 1
    /\ pc' = "parse_blob"
    /\ i' = 1
    /\ objectives' = EmptyMap
    /\ player_scores' = EmptyMap
    /\ result' = NoResult
    /\ UNCHANGED <<cmd, blob, outputs, sqlVars>>

Next ==
    \/ ParseBlobBegin
    \/ ParseObjective
    \/ ParsePlayerScoresBegin
    \/ ParsePlayerScore
    \/ ParseBlobReturn
    \/ WriteCsv
    \/ WriteToSqlBegin
    \/ ExecuteQuery
    \/ WriteToSqlReturn
    \/ Rerun

Spec == Init /\ [][Next]_vars

(***************************************************************************)
(* Vocabulary of the properties.                                           *)
(***************************************************************************)
ObjectiveElems == blob.Objectives.elems
ScoreElems == blob.PlayerScores.elems
Decoded == result.kind # "None"

\* the key fields are read before the record fields of an element
HasKey(e, keyField) == Get(e.f, keyField).kind # "Absent"
\* an element that parse_blob passes without ending: skipped, or decoded
ObjectivePasses(e) ==
    e.kind = "Compound" => (HasKey(e, "Name") /\ ObjectiveTryFrom(e).ok)
ScorePasses(e) ==
    e.kind = "Compound" => (HasKey(e, "Objective") /\ PlayerScoreTryFrom(e).ok)

\* parse_blob reaches element j of the Objectives list
ReachesObjective(j) ==
    /\ blob.data = "Compound"
    /\ blob.Objectives.kind = "List"
    /\ j \in 1..Len(ObjectiveElems)
    /\ \A h \in 1..(j - 1) : ObjectivePasses(ObjectiveElems[h])
\* parse_blob reaches the PlayerScores child
ReachesPlayerScores ==
    /\ blob.data = "Compound"
    /\ blob.Objectives.kind = "List"
    /\ \A h \in 1..Len(ObjectiveElems) : ObjectivePasses(ObjectiveElems[h])
\* parse_blob reaches element j of the PlayerScores list
ReachesScore(j) ==
    /\ ReachesPlayerScores
    /\ blob.PlayerScores.kind = "List"
    /\ j \in 1..Len(ScoreElems)
    /\ \A h \in 1..(j - 1) : ScorePasses(ScoreElems[h])

\* the indices of the compound elements of a list whose key field reads `key`
KeyedAt(elems, keyField, key) ==
    {j \in 1..Len(elems) :
        /\ elems[j].kind = "Compound"
        /\ HasKey(elems[j], keyField)
        /\ ValueToString(Get(elems[j].f, keyField)) = key}
KeysOf(elems, keyField) ==
    {ValueToString(Get(elems[j].f, keyField)) :
        j \in {h \in 1..Len(elems) : elems[h].kind = "Compound" /\ HasKey(elems[h], keyField)}}
\* the n-th smallest member of a set of indices
Nth(S, n) == CHOOSE j \in S : Cardinality({h \in S : h <= j}) = n
Largest(S) == CHOOSE j \in S : \A h \in S : h <= j

\* the aggregate holds the whole input: every compound element of both lists
FullyPopulated(stats) ==
    /\ \A j \in 1..Len(ObjectiveElems) : ObjectivePasses(ObjectiveElems[j])
    /\ \A j \in 1..Len(ScoreElems) : ScorePasses(ScoreElems[j])
    /\ DOMAIN stats.objectives = KeysOf(ObjectiveElems, "Name")
    /\ \A key \in DOMAIN stats.objectives :
          stats.objectives[key]
            = ObjectiveTryFrom(ObjectiveElems[Largest(KeyedAt(ObjectiveElems, "Name", key))]).val
    /\ DOMAIN stats.player_scores = KeysOf(ScoreElems, "Objective")
    /\ \A key \in DOMAIN stats.player_scores :
          LET at == KeyedAt(ScoreElems, "Objective", key)
              list == stats.player_scores[key]
          IN  /\ Len(list) = Cardinality(at)
              /\ \A n \in 1..Len(list) :
                    list[n] = PlayerScoreTryFrom(ScoreElems[Nth(at, n)]).val

(***************************************************************************)
(* C1: decoding is atomic.  Whenever parse_blob has ended, it has either   *)
(* returned an aggregate whose two mappings hold the whole input, or it    *)
(* has failed and returned no aggregate; no run that failed on an element  *)
(* (of either list) has returned one.                                      *)
(***************************************************************************)
C1_DecodeAtomic ==
    /\ result.kind = "Ok" => FullyPopulated(result.stats)
    /\ result.kind # "Ok" => result.stats = NoStats
    /\ (Decoded /\ \E j \in 1..Len(ScoreElems) : ReachesScore(j) /\ ~ScorePasses(ScoreElems[j]))
          => result.kind # "Ok"
    /\ (Decoded /\ \E j \in 1..Len(ObjectiveElems) :
                      ReachesObjective(j) /\ ~ObjectivePasses(ObjectiveElems[j]))
          => result.kind # "Ok"

\* a PlayerScores element failed after the Objectives list had been decoded
\* into a non-empty map, and the run has ended
C1_Witness ==
    /\ Decoded
    /\ result.kind = "Err"
    /\ objectives # EmptyMap
    /\ player_scores # EmptyMap
    /\ \E j \in 2..Len(ScoreElems) : ReachesScore(j) /\ ~ScorePasses(ScoreElems[j])

(***************************************************************************)
(* The required fields of the two records, in the order they are checked,  *)
(* with the node kinds each accepts and the name of the expected type.     *)
(***************************************************************************)
ObjectiveFields ==
    << [name |-> "CriteriaName", kinds |-> {"String"}, expected |-> "String"],
       [name |-> "display_auto_update", kinds |-> {"Byte"}, expected |-> "Byte"],
       [name |-> "DisplayName", kinds |-> {"String"}, expected |-> "String"],
       [name |-> "RenderType", kinds |-> {"String"}, expected |-> "String"] >>
PlayerScoreFields ==
    << [name |-> "Locked", kinds |-> {"Byte"}, expected |-> "Byte"],
       [name |-> "Name", kinds |-> {"String"}, expected |-> "String"],
       [name |-> "Score", kinds |-> {"Byte", "Short", "Int", "Long"},
        expected |-> "Long, Int, Short, Byte"] >>

\* the fields checked before the n-th are present and of an accepted kind
ValidBefore(e, fields, n) ==
    \A m \in 1..(n - 1) : Get(e.f, fields[m].name).kind \in fields[m].kinds
\* the n-th field is present with a kind that is not accepted
IllTyped(e, fields, n) ==
    /\ Get(e.f, fields[n].name).kind # "Absent"
    /\ Get(e.f, fields[n].name).kind \notin fields[n].kinds
Missing(e, fields, n) == Get(e.f, fields[n].name).kind = "Absent"

\* parse_blob has returned a type-mismatch error naming `field`
MismatchOn(field) ==
    /\ result.kind = "Err"
    /\ result.err.type = "WrongTypeNbtField"
    /\ result.err.field = field
\* parse_blob has returned a missing-field error naming `field`
MissingOn(field) ==
    /\ result.kind = "Err"
    /\ result.err.type = "MissingNbtField"
    /\ result.err.field = field

(***************************************************************************)
(* C2 as stated: whenever the PlayerScores list has a compound element     *)
(* whose Score (Locked, Name) field is present with a kind that is not     *)
(* accepted, decoding ends with a type-mismatch error naming that field.   *)
(***************************************************************************)
C2_AsStated ==
    \A j \in 1..Len(ScoreElems) : \A n \in 1..3 :
        ( /\ Decoded
          /\ blob.PlayerScores.kind = "List"
          /\ ScoreElems[j].kind = "Compound"
          /\ IllTyped(ScoreElems[j], PlayerScoreFields, n) )
        => MismatchOn(PlayerScoreFields[n].name)

(***************************************************************************)
(* C2 amended: for every compound element of the PlayerScores list that    *)
(* decoding reaches, whose Objective key is present and whose fields       *)
(* checked before (Locked before Name before Score) are valid: when Score  *)
(* (Locked, Name) is present with a kind that is not accepted, decoding    *)
(* ends with a type-mismatch error naming exactly that field and carrying  *)
(* the node found; it neither panics nor returns an aggregate.             *)
(***************************************************************************)
C2_ScoreMismatch ==
    \A j \in 1..Len(ScoreElems) : \A n \in 1..3 :
        ( /\ Decoded
          /\ ReachesScore(j)
          /\ ScoreElems[j].kind = "Compound"
          /\ HasKey(ScoreElems[j], "Objective")
          /\ ValidBefore(ScoreElems[j], PlayerScoreFields, n)
          /\ IllTyped(ScoreElems[j], PlayerScoreFields, n) )
        => /\ MismatchOn(PlayerScoreFields[n].name)
           /\ result.err.real_data = Get(ScoreElems[j].f, PlayerScoreFields[n].name)
           /\ result.stats = NoStats

\* decoding has ended on an element whose Score field is a string node
C2_Witness ==
    /\ MismatchOn("Score")
    /\ result.err.real_data.kind = "String"
    /\ pc = "exit"
    /\ \E j \in 1..Len(ScoreElems) :
          /\ ReachesScore(j)
          /\ HasKey(ScoreElems[j], "Objective")
          /\ ValidBefore(ScoreElems[j], PlayerScoreFields, 3)
          /\ Get(ScoreElems[j].f, "Score").kind = "String"

(***************************************************************************)
(* C3: for each of the four Objective fields, when an element of the       *)
(* Objectives list that decoding reaches has the field with a kind that is *)
(* not accepted, and the fields checked before it are valid, decoding ends *)
(* with a type-mismatch error whose field is that field's name, whose      *)
(* expected type is the required one and whose value is the node found.    *)
(***************************************************************************)
C3_ObjectiveMismatch ==
    \A j \in 1..Len(ObjectiveElems) : \A n \in 1..4 :
        ( /\ Decoded
          /\ ReachesObjective(j)
          /\ ObjectiveElems[j].kind = "Compound"
          /\ HasKey(ObjectiveElems[j], "Name")
          /\ ValidBefore(ObjectiveElems[j], ObjectiveFields, n)
          /\ IllTyped(ObjectiveElems[j], ObjectiveFields, n) )
        => /\ MismatchOn(ObjectiveFields[n].name)
           /\ result.err.expected_type = ObjectiveFields[n].expected
           /\ result.err.real_data = Get(ObjectiveElems[j].f, ObjectiveFields[n].name)

(***************************************************************************)
(* C4: for each required field of the two records, when an element that    *)
(* decoding reaches lacks the field, and the fields checked before it (the *)
(* key field first) are valid, decoding ends with a missing-field error    *)
(* carrying exactly that field's name.                                     *)
(***************************************************************************)
C4_MissingFieldNamed ==
    /\ \A j \in 1..Len(ObjectiveElems) : \A n \in 1..4 :
          ( /\ Decoded
            /\ ReachesObjective(j)
            /\ ObjectiveElems[j].kind = "Compound"
            /\ HasKey(ObjectiveElems[j], "Name")
            /\ ValidBefore(ObjectiveElems[j], ObjectiveFields, n)
            /\ Missing(ObjectiveElems[j], ObjectiveFields, n) )
          => MissingOn(ObjectiveFields[n].name)
    /\ \A j \in 1..Len(ScoreElems) : \A n \in 1..3 :
          ( /\ Decoded
            /\ ReachesScore(j)
            /\ ScoreElems[j].kind = "Compound"
            /\ HasKey(ScoreElems[j], "Objective")
            /\ ValidBefore(ScoreElems[j], PlayerScoreFields, n)
            /\ Missing(ScoreElems[j], PlayerScoreFields, n) )
          => MissingOn(PlayerScoreFields[n].name)

\* decoding has ended on an Objectives element that lacks only RenderType
C4_Witness ==
    /\ MissingOn("RenderType")
    /\ pc = "exit"
    /\ \E j \in 1..Len(ObjectiveElems) :
          /\ ReachesObjective(j)
          /\ HasKey(ObjectiveElems[j], "Name")
          /\ ValidBefore(ObjectiveElems[j], ObjectiveFields, 4)
          /\ Missing(ObjectiveElems[j], ObjectiveFields, 4)

(***************************************************************************)
(* C5: when the Objectives child or the PlayerScores child of `data` is    *)
(* present and is not a list, decoding ends by returning an error, in both *)
(* cases alike, and returns no aggregate.                                  *)
(***************************************************************************)
C5_ShapeError ==
    ( /\ Decoded
      /\ blob.data = "Compound"
      /\ \/ blob.Objectives.kind \notin {"Absent", "List"}
         \/ /\ ReachesPlayerScores
            /\ blob.PlayerScores.kind \notin {"Absent", "List"} )
    => (result.kind = "Err" /\ result.stats = NoStats)

(***************************************************************************)
(* Vocabulary of the export properties.                                    *)
(***************************************************************************)
\* the player names of an aggregate, under any key
AllNames(stats) ==
    UNION {{stats.player_scores[key][j].player_name :
                j \in 1..Len(stats.player_scores[key])} :
           key \in DOMAIN stats.player_scores}
StrictlyAscending(s) == \A n \in 1..(Len(s) - 1) : StrLess(s[n], s[n + 1])
Range(s) == {s[n] : n \in 1..Len(s)}

\* the column of objective t: after "Players" and the smaller identifiers
Column(stats, t) ==
    2 + Cardinality({key \in DOMAIN stats.objectives : StrLess(key, t)})

RECURSIVE DigitsValue(_)
DigitsValue(s) ==
    IF s = <<>> THEN 0
    ELSE 10 * DigitsValue(SubSeq(s, 1, Len(s) - 1)) + (s[Len(s)] - 48)
\* cell is the decimal numeral of n: digits without leading zero, "-" iff n < 0
IsDecimalOf(cell, n) ==
    LET digits == IF n < 0 THEN Tail(cell) ELSE cell
    IN  /\ cell # <<>>
        /\ n < 0 => cell[1] = 45
        /\ digits # <<>>
        /\ \A j \in 1..Len(digits) : digits[j] \in 48..57
        /\ Len(digits) > 1 => digits[1] # 48
        /\ DigitsValue(digits) = (IF n < 0 THEN 0 - n ELSE n)

\* the exports that reached the sink
WrittenRecords == {outputs[n].records : n \in {m \in 1..Len(outputs) : outputs[m].ok}}

(***************************************************************************)
(* C6: for every aggregate and whatever the order in which the map         *)
(* iterates, get_player_list is strictly ascending in lexicographic order  *)
(* and its elements are exactly the player names occurring under any key   *)
(* of the PlayerScores mapping, keys without objective included.           *)
(***************************************************************************)
C6_DistinctPlayers ==
    result.kind = "Ok" =>
        \A order \in Orders(DOMAIN result.stats.player_scores) :
            LET players == get_player_list(result.stats, order)
            IN  /\ StrictlyAscending(players)
                /\ Range(players) = AllNames(result.stats)

\* an exported aggregate whose source list has a name twice and names out of
\* order, one of them under a key that no objective has
C6_Witness ==
    /\ result.kind = "Ok"
    /\ pc = "exit"
    /\ outputs # <<>>
    /\ \E a, b \in 1..Len(ScoreElems) :
          /\ a < b
          /\ ScoreElems[a].kind = "Compound"
          /\ ScoreElems[b].kind = "Compound"
          /\ Get(ScoreElems[a].f, "Name") = Get(ScoreElems[b].f, "Name")
    /\ \E a, b \in 1..Len(ScoreElems) :
          /\ a < b
          /\ ScoreElems[a].kind = "Compound"
          /\ ScoreElems[b].kind = "Compound"
          /\ StrLess(Get(ScoreElems[b].f, "Name").s, Get(ScoreElems[a].f, "Name").s)
    /\ \E key \in DOMAIN result.stats.player_scores :
          key \notin DOMAIN result.stats.objectives

(***************************************************************************)
(* C7: in every export that reached the sink, for every distinct player p  *)
(* and every objective identifier t of the Objectives mapping, the cell of *)
(* p's row in t's column is the decimal numeral of the score of the first  *)
(* entry of PlayerScores[t] naming p, and it is "0" when PlayerScores has  *)
(* no key t or no entry of PlayerScores[t] names p.                        *)
(***************************************************************************)
C7_CellIsFirstMatch ==
    result.kind = "Ok" =>
        \A records \in WrittenRecords :
        \A p \in AllNames(result.stats) :
        \A t \in DOMAIN result.stats.objectives :
            \E r \in 2..Len(records) :
                /\ records[r][1] = p
                /\ LET cell == records[r][Column(result.stats, t)]
                       list == IF t \in DOMAIN result.stats.player_scores
                               THEN result.stats.player_scores[t] ELSE <<>>
                   IN  IF \A j \in 1..Len(list) : list[j].player_name # p
                       THEN cell = <<48>>
                       ELSE \E j \in 1..Len(list) :
                               /\ list[j].player_name = p
                               /\ \A h \in 1..(j - 1) : list[h].player_name # p
                               /\ IsDecimalOf(cell, list[j].score)

\* an export in which a player has two entries with different scores under
\* one objective, and another player has none under it
C7_Witness ==
    /\ result.kind = "Ok"
    /\ WrittenRecords # {}
    /\ \E t \in (DOMAIN result.stats.objectives) \cap (DOMAIN result.stats.player_scores) :
          LET list == result.stats.player_scores[t]
          IN  /\ \E a, b \in 1..Len(list) :
                    /\ a < b
                    /\ list[a].player_name = list[b].player_name
                    /\ list[a].score # list[b].score
              /\ \E p \in AllNames(result.stats) :
                    \A j \in 1..Len(list) : list[j].player_name # p

(***************************************************************************)
(* C8: an export that reached the sink is one header row followed by one   *)
(* data row per element of get_player_list, in that order.  The header is  *)
(* "Players" followed by the display names of the objectives in ascending  *)
(* order of objective identifier; every data row starts with the player    *)
(* name and has one cell per objective: all rows have 1 + number of        *)
(* objectives cells.                                                       *)
(***************************************************************************)
C8_CsvLayout ==
    result.kind = "Ok" =>
        \A records \in WrittenRecords :
        \A order \in Orders(DOMAIN result.stats.player_scores) :
            LET players == get_player_list(result.stats, order)
                objs == result.stats.objectives
            IN  /\ Len(records) = 1 + Len(players)
                /\ \A r \in 1..Len(records) : Len(records[r]) = 1 + Cardinality(DOMAIN objs)
                /\ records[1][1] = PlayersHeader
                /\ \A t \in DOMAIN objs :
                      records[1][Column(result.stats, t)] = objs[t].display_name
                /\ \A r \in 1..Len(players) : records[r + 1][1] = players[r]

\* an export of two objectives whose display names sort against their
\* identifiers, with at least two players
C8_Witness ==
    /\ result.kind = "Ok"
    /\ \E records \in WrittenRecords : Len(records) >= 3
    /\ \E t, u \in DOMAIN result.stats.objectives :
          /\ StrLess(t, u)
          /\ StrLess(result.stats.objectives[u].display_name,
                     result.stats.objectives[t].display_name)

(***************************************************************************)
(* C9: tabular export is deterministic.  The exports of the runs on one    *)
(* input, each decoding it anew and each with its maps iterating in an     *)
(* order of their own, are identical whenever they reach the sink.         *)
(***************************************************************************)
C9_CsvDeterministic ==
    \A a, b \in 1..Len(outputs) :
        (outputs[a].ok /\ outputs[b].ok) => outputs[a].records = outputs[b].records

\* two runs have exported an aggregate with two objectives and two score lists
C9_Witness ==
    /\ Len(outputs) = 2
    /\ outputs[1].ok
    /\ outputs[2].ok
    /\ result.kind = "Ok"
    /\ Cardinality(DOMAIN result.stats.objectives) >= 2
    /\ Cardinality(DOMAIN result.stats.player_scores) >= 2
    /\ Len(outputs[1].records) >= 3

(***************************************************************************)
(* Vocabulary of the persistence properties.                               *)
(***************************************************************************)
\* the phase of a statement: players, then objectives, then stats
Phase(q) ==
    CASE q.table = "players" -> 1 [] q.table = "objectives" -> 2 [] OTHER -> 3
\* the positions of the log at which a statement on `table` was issued
IssuedOn(table) == {a \in 1..Len(issued) : issued[a].query.table = table}

(***************************************************************************)
(* C10: in every call of write_to_sql the statements are issued in three   *)
(* phases: every player insert before any objective insert, and every      *)
(* objective insert before any score insert.  In a call that succeeded,    *)
(* exactly one player insert was issued per distinct player and exactly    *)
(* one objective insert per key of the Objectives mapping.                 *)
(***************************************************************************)
C10_PersistPhases ==
    /\ \A a, b \in 1..Len(issued) :
          a < b => Phase(issued[a].query) <= Phase(issued[b].query)
    /\ (sql_result = "Ok" /\ result.kind = "Ok") =>
          /\ Cardinality(IssuedOn("players")) = Cardinality(AllNames(result.stats))
          /\ \A p \in AllNames(result.stats) :
                \E a \in IssuedOn("players") : issued[a].query.player_name = p
          /\ Cardinality(IssuedOn("objectives"))
                = Cardinality(DOMAIN result.stats.objectives)
          /\ \A key \in DOMAIN result.stats.objectives :
                \E a \in IssuedOn("objectives") : issued[a].query.objective_name = key

\* a call that succeeded with two player, two objective and two score inserts
C10_Witness ==
    /\ sql_result = "Ok"
    /\ result.kind = "Ok"
    /\ pc = "exit"
    /\ Cardinality(IssuedOn("players")) >= 2
    /\ Cardinality(IssuedOn("objectives")) >= 2
    /\ Cardinality(IssuedOn("stats")) >= 2

\* the row of a statement is in the store
Stored(db, q) ==
    CASE q.table = "players" -> q.player_name \in db.players
      [] q.table = "objectives" -> ContainsKey(db.objectives, q.objective_name)
      [] OTHER -> ContainsKey(db.stats, q)

(***************************************************************************)
(* C11: when an insert of write_to_sql fails, no further insert of any     *)
(* phase is issued in that call (a failed statement is the last of the     *)
(* call's log), the call returns the error, and the rows of the inserts    *)
(* that had succeeded before remain in the store.                          *)
(***************************************************************************)
C11_FailureStops ==
    /\ \A a \in 1..Len(issued) :
          ~issued[a].ok => (a = Len(issued) /\ sql_result = "Err" /\ pc # "write_to_sql")
    /\ sql_result = "Err" => (issued # <<>> /\ ~issued[Len(issued)].ok)
    /\ \A a \in 1..Len(issued) : issued[a].ok => Stored(store, issued[a].query)

\* a call that failed on a score insert after player and objective inserts
\* had succeeded, with a statement of the call left unissued
C11_Witness ==
    /\ sql_result = "Err"
    /\ pc = "exit"
    /\ Len(issued) < Len(queries)
    /\ issued[Len(issued)].query.table = "stats"
    /\ \E a \in IssuedOn("objectives") : issued[a].ok
    /\ \E a \in IssuedOn("players") : issued[a].ok

RECURSIVE RowCount(_, _)
\* the number of rows of the counted table m whose row is in S
RowCount(m, S) ==
    IF S = {} THEN 0
    ELSE LET r == CHOOSE x \in S : TRUE IN m[r] + RowCount(m, S \ {r})
StatRows(db) == RowCount(db.stats, DOMAIN db.stats)
\* the store a call began with
StoreBefore(k) == IF k = 1 THEN EmptyStore ELSE calls[k - 1].store

(***************************************************************************)
(* C12: of two successful calls of write_to_sql on the same aggregate and  *)
(* the same store, the second leaves the player rows and the objective     *)
(* rows as the first left them, and when it follows the first directly the *)
(* score rows added by the two calls are exactly twice the rows the first  *)
(* call added.                                                             *)
(***************************************************************************)
C12_SecondCall ==
    \A a \in 1..Len(calls), b \in 1..Len(calls) :
        (a < b /\ calls[a].result = "Ok" /\ calls[b].result = "Ok") =>
            /\ calls[b].store.players = calls[a].store.players
            /\ calls[b].store.objectives = calls[a].store.objectives
            /\ b = a + 1 =>
                  StatRows(calls[b].store) - StatRows(StoreBefore(a))
                    = 2 * (StatRows(calls[a].store) - StatRows(StoreBefore(a)))

\* two successful calls on an aggregate with players, objectives and two
\* scores of one player under one objective
C12_Witness ==
    /\ Len(calls) >= 2
    /\ calls[1].result = "Ok"
    /\ calls[2].result = "Ok"
    /\ calls[1].store.players # {}
    /\ DOMAIN calls[1].store.objectives # {}
    /\ StatRows(calls[1].store) >= 2
    /\ \E r, s \in DOMAIN calls[1].store.stats :
          r # s /\ r.player_name = s.player_name /\ r.objective_name = s.objective_name

(***************************************************************************)
(* C13: score widening.  In a returned aggregate the score of every entry  *)
(* is the number n of the byte, short, int or long Score node of the       *)
(* element it was decoded from, with its sign.                             *)
(***************************************************************************)
C13_Widening ==
    result.kind = "Ok" =>
        \A key \in DOMAIN result.stats.player_scores :
            LET at == KeyedAt(ScoreElems, "Objective", key)
                list == result.stats.player_scores[key]
            IN  \A n \in 1..Len(list) :
                    LET node == Get(ScoreElems[Nth(at, n)].f, "Score")
                    IN  /\ node.kind \in {"Byte", "Short", "Int", "Long"}
                        /\ list[n].score = node.n

\* an aggregate with an entry decoded from a negative byte Score
C13_Witness ==
    /\ result.kind = "Ok"
    /\ \E key \in DOMAIN result.stats.player_scores :
          LET at == KeyedAt(ScoreElems, "Objective", key)
              list == result.stats.player_scores[key]
          IN  \E n \in 1..Len(list) :
                  LET node == Get(ScoreElems[Nth(at, n)].f, "Score")
                  IN  node.kind = "Byte" /\ node.n < 0 /\ list[n].score < 0

\* the raw DisplayName of the element an objective of the aggregate came from
RawDisplayName(key) ==
    Get(ObjectiveElems[Largest(KeyedAt(ObjectiveElems, "Name", key))].f, "DisplayName").s

(***************************************************************************)
(* C14: display-name stripping.  In a returned aggregate the display name  *)
(* of an objective whose raw DisplayName has n >= 2 characters is the raw  *)
(* string without its first and its last character (n - 2 characters, the  *)
(* inner ones in order); for n = 0 and n = 1 decoding succeeded all the    *)
(* same and the display name is empty.                                     *)
(***************************************************************************)
C14_DisplayName ==
    result.kind = "Ok" =>
        \A key \in DOMAIN result.stats.objectives :
            LET raw == RawDisplayName(key)
                display_name == result.stats.objectives[key].display_name
            IN  /\ Len(display_name) = IF Len(raw) >= 2 THEN Len(raw) - 2 ELSE 0
                /\ \A c \in 1..Len(display_name) : display_name[c] = raw[c + 1]

\* an aggregate with an objective of a one-character raw name and one of a
\* raw name of three characters or more
C14_Witness ==
    /\ result.kind = "Ok"
    /\ \E key \in DOMAIN result.stats.objectives :
          Len(RawDisplayName(key)) = 1 /\ result.stats.objectives[key].display_name = <<>>
    /\ \E key \in DOMAIN result.stats.objectives :
          Len(RawDisplayName(key)) >= 3 /\ result.stats.objectives[key].display_name # <<>>

\* a list without its elements that are not compounds
IsCompound(e) == e.kind = "Compound"
Compounds(elems) == SelectSeq(elems, IsCompound)
\* stats is the aggregate that decoding the two lists returns when every
\* element of them passes
DecodesTo(objElems, scoreElems, stats) ==
    /\ DOMAIN stats.objectives = KeysOf(objElems, "Name")
    /\ \A key \in DOMAIN stats.objectives :
          stats.objectives[key]
            = ObjectiveTryFrom(objElems[Largest(KeyedAt(objElems, "Name", key))]).val
    /\ DOMAIN stats.player_scores = KeysOf(scoreElems, "Objective")
    /\ \A key \in DOMAIN stats.player_scores :
          LET at == KeyedAt(scoreElems, "Objective", key)
              list == stats.player_scores[key]
          IN  /\ Len(list) = Cardinality(at)
              /\ \A n \in 1..Len(list) :
                    list[n] = PlayerScoreTryFrom(scoreElems[Nth(at, n)]).val

(***************************************************************************)
(* C15: elements of the two lists that are not compounds are skipped       *)
(* without error.  Decoding succeeds whenever every compound element       *)
(* decodes, whatever other elements the lists hold, and the aggregate      *)
(* returned is the aggregate of the lists with those elements removed.     *)
(***************************************************************************)
C15_SkipsNonCompound ==
    /\ result.kind = "Ok" =>
          DecodesTo(Compounds(ObjectiveElems), Compounds(ScoreElems), result.stats)
    /\ ( /\ Decoded
         /\ blob.data = "Compound"
         /\ blob.Objectives.kind = "List"
         /\ blob.PlayerScores.kind = "List"
         /\ \A j \in 1..Len(ObjectiveElems) : ObjectivePasses(ObjectiveElems[j])
         /\ \A j \in 1..Len(ScoreElems) : ScorePasses(ScoreElems[j]) )
          => result.kind = "Ok"

\* an aggregate decoded from two lists that each hold an element that is not
\* a compound, before a compound one
C15_Witness ==
    /\ result.kind = "Ok"
    /\ \E j \in 1..Len(ObjectiveElems), k \in 1..Len(ObjectiveElems) :
          j < k /\ ~IsCompound(ObjectiveElems[j]) /\ IsCompound(ObjectiveElems[k])
    /\ \E j \in 1..Len(ScoreElems), k \in 1..Len(ScoreElems) :
          j < k /\ ~IsCompound(ScoreElems[j]) /\ IsCompound(ScoreElems[k])
    /\ DOMAIN result.stats.objectives # {}
    /\ DOMAIN result.stats.player_scores # {}

\* the keys of the PlayerScores mapping without an objective
OrphanKeys(stats) == DOMAIN stats.player_scores \ DOMAIN stats.objectives
\* the players whose every entry is under such a key
OrphanOnly(stats) ==
    {p \in AllNames(stats) :
        \A key \in DOMAIN stats.objectives :
            ContainsKey(stats.player_scores, key)
                => FindPlayer(stats.player_scores[key], p) = 0}

(***************************************************************************)
(* C16: a key of the PlayerScores mapping without an objective is no error *)
(* for write_csv.  The export of an aggregate ends with the records handed *)
(* to the writer; the header has one column per objective and none for     *)
(* such a key; every score cell is "0" or the numeral of a score stored    *)
(* for the row's player under the objective of the cell's column; and a    *)
(* player whose every score is under such keys has a row whose score cells *)
(* are all "0".                                                            *)
(***************************************************************************)
C16_OrphanKeys ==
    result.kind = "Ok" =>
        LET stats == result.stats
        IN  /\ (cmd = "CSV" /\ pc = "exit") => Len(outputs) = run
            /\ \A records \in WrittenRecords :
                  /\ Len(records[1]) = 1 + Cardinality(DOMAIN stats.objectives)
                  /\ \A t \in DOMAIN stats.objectives :
                        records[1][Column(stats, t)] = stats.objectives[t].display_name
                  /\ \A r \in 2..Len(records) :
                        \A t \in DOMAIN stats.objectives :
                            LET cell == records[r][Column(stats, t)]
                            IN  \/ cell = <<48>>
                                \/ /\ ContainsKey(stats.player_scores, t)
                                   /\ \E j \in 1..Len(stats.player_scores[t]) :
                                         /\ stats.player_scores[t][j].player_name = records[r][1]
                                         /\ IsDecimalOf(cell, stats.player_scores[t][j].score)
                  /\ \A p \in OrphanOnly(stats) :
                        \E r \in 2..Len(records) :
                            /\ records[r][1] = p
                            /\ Len(records[r]) = Len(records[1])
                            /\ \A c \in 2..Len(records[r]) : records[r][c] = <<48>>

\* a written export of an aggregate with an objective, a key without
\* objective that holds a non-zero score, a player with scores under such keys
\* only and a player with a score under the objective
C16_Witness ==
    /\ result.kind = "Ok"
    /\ WrittenRecords # {}
    /\ DOMAIN result.stats.objectives # {}
    /\ \E key \in OrphanKeys(result.stats) :
          \E j \in 1..Len(result.stats.player_scores[key]) :
              /\ result.stats.player_scores[key][j].score # 0
              /\ result.stats.player_scores[key][j].player_name \in OrphanOnly(result.stats)
    /\ AllNames(result.stats) \ OrphanOnly(result.stats) # {}

(***************************************************************************)
(* C17: referential ordering of write_to_sql.  Every score insert issued   *)
(* in a call comes after an insert, in the same call, of the player with   *)
(* the row's player name and after an insert of the objective with the     *)
(* row's objective identifier, keys without objective included.            *)
(***************************************************************************)
C17_ReferentialOrder ==
    \A a \in IssuedOn("stats") :
        /\ \E b \in IssuedOn("players") :
              b < a /\ issued[b].query.player_name = issued[a].query.player_name
        /\ \E c \in IssuedOn("objectives") :
              c < a /\ issued[c].query.objective_name = issued[a].query.objective_name

(***************************************************************************)
(* C19: decoding is total on the key fields.  For a tree whose `data` is a *)
(* compound with a list of Objectives and a list of PlayerScores,          *)
(* parse_blob ends by returning an aggregate or an error, also when a      *)
(* compound element lacks its `Name` or its `Objective` field.             *)
(***************************************************************************)
C19_KeyFieldsTotal ==
    ( /\ Decoded
      /\ blob.data = "Compound"
      /\ blob.Objectives.kind = "List"
      /\ blob.PlayerScores.kind = "List" )
        => result.kind \in {"Ok", "Err"}

\* the entries of the PlayerScores mapping, as pairs of key and position
Entries(stats) ==
    UNION {{<<key, n>> : n \in 1..Len(stats.player_scores[key])} :
           key \in DOMAIN stats.player_scores}
\* the statement q carries the entry e of stats and the timestamp
Carries(q, stats, e, timestamp) ==
    /\ q.table = "stats"
    /\ q.score = stats.player_scores[e[1]][e[2]].score
    /\ q.player_name = stats.player_scores[e[1]][e[2]].player_name
    /\ q.objective_name = e[1]
    /\ q.time = timestamp

(***************************************************************************)
(* C18: one entry per decoded element, one score insert per entry.  In a   *)
(* returned aggregate the list under a key holds, in the order of the      *)
(* input, one entry for each compound element of the PlayerScores list     *)
(* whose Objective reads that key, entries of the same player included.    *)
(* A call of write_to_sql that succeeded has issued exactly one score      *)
(* insert per entry, with the entry's score and player name, its key as    *)
(* the objective identifier and the timestamp of the call.                 *)
(***************************************************************************)
C18_OneEntryOneInsert ==
    /\ result.kind = "Ok" =>
          LET player_scores_ == result.stats.player_scores
          IN  /\ DOMAIN player_scores_ = KeysOf(ScoreElems, "Objective")
              /\ \A key \in DOMAIN player_scores_ :
                    LET at == KeyedAt(ScoreElems, "Objective", key)
                        list == player_scores_[key]
                    IN  /\ Len(list) = Cardinality(at)
                        /\ \A n \in 1..Len(list) :
                              LET f == ScoreElems[Nth(at, n)].f
                              IN  /\ list[n].player_name = Get(f, "Name").s
                                  /\ list[n].score = Get(f, "Score").n
                                  /\ list[n].locked = Get(f, "Locked").n
    /\ (result.kind = "Ok" /\ sql_result = "Ok" /\ pc = "exit") =>
          LET stats == result.stats
              inserts == IssuedOn("stats")
          IN  /\ Cardinality(inserts) = Cardinality(Entries(stats))
              /\ \A a \in inserts :
                    /\ issued[a].ok
                    /\ issued[a].query.time = run
                    /\ \E e \in Entries(stats) : Carries(issued[a].query, stats, e, run)
              /\ \A e \in Entries(stats) :
                    Cardinality({a \in inserts : Carries(issued[a].query, stats, e, run)})
                      = Cardinality({d \in Entries(stats) :
                                        /\ d[1] = e[1]
                                        /\ stats.player_scores[d[1]][d[2]]
                                             = stats.player_scores[e[1]][e[2]]})

\* a call that succeeded on an aggregate with two entries of one player
\* under one key
C18_Witness ==
    /\ result.kind = "Ok"
    /\ sql_result = "Ok"
    /\ pc = "exit"
    /\ \E d \in Entries(result.stats), e \in Entries(result.stats) :
          /\ d[1] = e[1]
          /\ d[2] < e[2]
          /\ result.stats.player_scores[d[1]][d[2]].player_name
               = result.stats.player_scores[e[1]][e[2]].player_name
          /\ result.stats.player_scores[d[1]][d[2]].score
               # result.stats.player_scores[e[1]][e[2]].score
    /\ Cardinality(IssuedOn("stats")) >= 2

====
